---------------------------- MODULE Spec2Model ----------------------------
(***************************************************************************)
(* State-machine model of backend/server.py (Stock Trading Assistant API). *)
(*                                                                         *)
(* Units.  Prices (ltp, vwap, tc, bc, entry_price, target, stop_loss) are  *)
(* integers counting thousandths (110000 is 110.0), so that a price with   *)
(* more than two decimals is representable.  RSI values are integers       *)
(* counting hundredths (2500 is 25.00).  Arithmetic is exact (reals, not   *)
(* IEEE doubles); round(x, 2) is rounding to the nearest hundredth with    *)
(* ties to even.                                                           *)
(*                                                                         *)
(* Scheduling.  All endpoints are "async def" handlers on one asyncio      *)
(* event loop.  scan_all_symbols only awaits coroutines that never suspend *)
(* (get_indicators, log_trade and send_alert do blocking work), so no      *)
(* other handler runs between the start and the end of a scan.  The scan   *)
(* is still modelled step by step (pc, i) so that the order of its         *)
(* collaborator calls is observable.                                       *)
(***************************************************************************)
EXTENDS Integers, Sequences, FiniteSets, TLC

VARIABLES
    watchlist_storage,  \* the global in-memory watchlist (list of items)
    request,            \* the request of the last handler: a WatchlistRequest, or the
                        \* symbol asked of /indicators or /signal
    pc,                 \* position of scan_all_symbols: idle, signal, log, alert
    i,                  \* scan loop: index of the current item of watchlist_storage
    signal_response,    \* scan loop: the SignalResponse of the current item
    results,            \* scan local: accumulated result list
    calls,              \* history of the collaborator calls of the current scan
    response,           \* the value returned by the last handler
    indicators,         \* input of TradingEngine.generate_signal
    signal_data,        \* output of TradingEngine.generate_signal
    prices,             \* input of calculate_rsi
    period,             \* input of calculate_rsi
    rsi_result,         \* output of calculate_rsi
    vwap_input,         \* input of calculate_vwap: prices and volumes
    vwap_result,        \* output of calculate_vwap
    cpr_input,          \* input of calculate_cpr: high, low, close
    cpr_result          \* output of calculate_cpr

scanVars == <<pc, i, signal_response, results, calls, response>>
serverVars == <<watchlist_storage, request, pc, i, signal_response, results, calls, response>>
signalVars == <<indicators, signal_data>>
rsiVars == <<prices, period, rsi_result>>
vwapVars == <<vwap_input, vwap_result>>
cprVars == <<cpr_input, cpr_result>>
vars == <<watchlist_storage, request, pc, i, signal_response, results, calls,
          response, indicators, signal_data, prices, period, rsi_result,
          vwap_input, vwap_result, cpr_input, cpr_result>>

----------------------------------------------------------------------------
(* Bounds *)

MaxDefault == 2      \* how many entries of DEFAULT_WATCHLIST the watchlist starts with
MaxSymbols == 2      \* longest symbol list of a WatchlistRequest
MaxLen == 4          \* longest price series given to calculate_rsi
MaxPeriod == 2       \* largest RSI period
MaxVwapLen == 2      \* longest price or volume series given to calculate_vwap
MaxCprValue == 4     \* largest high, low or close given to calculate_cpr, in hundredths

----------------------------------------------------------------------------
(* Generic helpers *)

Min(a, b) == IF a < b THEN a ELSE b

Range(s) == {s[k] : k \in 1..Len(s)}

SeqsUpTo(S, n) == UNION {[1..k -> S] : k \in 0..n}

\* Python round(x, 2) on the exact quotient n/d: nearest integer, ties to even.
round(n, d) ==
    LET q == n \div d
        r == n % d
    IN  IF 2 * r < d THEN q
        ELSE IF 2 * r > d THEN q + 1
        ELSE IF q % 2 = 0 THEN q ELSE q + 1

\* The format spec ":.2f" applied to a value counted in hundredths.
Format2f(h) ==
    ToString(h \div 100) \o "." \o ToString((h % 100) \div 10) \o ToString(h % 10)

----------------------------------------------------------------------------
(* IndicatorCalculator.calculate_rsi *)

np_diff(p) == [k \in 1..(Len(p) - 1) |-> p[k + 1] - p[k]]

gains_of(deltas) == [k \in 1..Len(deltas) |-> IF deltas[k] > 0 THEN deltas[k] ELSE 0]

losses_of(deltas) == [k \in 1..Len(deltas) |-> IF deltas[k] < 0 THEN -deltas[k] ELSE 0]

RECURSIVE SumFirst(_, _)
SumFirst(s, n) == IF n = 0 THEN 0 ELSE SumFirst(s, n - 1) + s[n]

\* np.mean(values[:period]) as the fraction num/den.
np_mean(values, n) == [num |-> SumFirst(values, n), den |-> n]

\* The smoothing loop "for i in range(period, len(deltas))" on one average,
\* kept as an exact fraction: (avg * (period - 1) + values[i]) / period.
RECURSIVE smooth(_, _, _, _)
smooth(avg, values, k, n) ==
    IF k > Len(values) THEN avg
    ELSE smooth([num |-> avg.num * (n - 1) + values[k] * avg.den,
                 den |-> avg.den * n], values, k + 1, n)

\* rsi = 100 - 100 / (1 + avg_gain / avg_loss), rounded to 2 decimals
\* (in hundredths).  Both averages have the same denominator.
rsi_from_averages_signslip(avg_gain, avg_loss) ==
    [rsi |-> round(10000 * (avg_gain.num + 2 * avg_loss.num), avg_gain.num + avg_loss.num),
     zero_division |-> avg_loss.num = 0]

rsi_from_averages(avg_gain, avg_loss) ==
    [rsi |-> round(10000 * avg_gain.num, avg_gain.num + avg_loss.num),
     zero_division |-> avg_loss.num = 0]

calculate_rsi_nozerocheck(p, n) ==
    IF Len(p) < n + 1 THEN [rsi |-> 5000, zero_division |-> FALSE]
    ELSE LET deltas == np_diff(p)
             avg_gain == smooth(np_mean(gains_of(deltas), n), gains_of(deltas), n + 1, n)
             avg_loss == smooth(np_mean(losses_of(deltas), n), losses_of(deltas), n + 1, n)
         IN  IF avg_loss.num = 0
             THEN [rsi |-> IF avg_gain.num = 0 THEN 0 ELSE 10000, zero_division |-> TRUE]
             ELSE rsi_from_averages(avg_gain, avg_loss)

calculate_rsi(p, n) ==
    IF Len(p) < n + 1 THEN [rsi |-> 5000, zero_division |-> FALSE]
    ELSE LET deltas == np_diff(p)
             avg_gain == smooth(np_mean(gains_of(deltas), n), gains_of(deltas), n + 1, n)
             avg_loss == smooth(np_mean(losses_of(deltas), n), losses_of(deltas), n + 1, n)
         IN  IF avg_loss.num = 0
             THEN [rsi |-> 10000, zero_division |-> FALSE]
             ELSE rsi_from_averages(avg_gain, avg_loss)

----------------------------------------------------------------------------
(* IndicatorCalculator.calculate_vwap *)

\* sum() of a list.
RECURSIVE sum(_)
sum(s) == IF s = <<>> THEN 0 ELSE Head(s) + sum(Tail(s))

\* Line 193: [p * v for p, v in zip(prices, volumes)]
price_volume_of(p, v) == [k \in 1..Len(p) |-> p[k] * v[k]]

\* Prices are whole numbers here and the result is counted in hundredths.  A
\* division of Python numbers by zero raises ZeroDivisionError.
calculate_vwap(p, v) ==
    IF Len(p) # Len(v) \/ Len(p) = 0 THEN [value |-> 0, error |-> ""]
    ELSE IF sum(v) = 0 THEN [value |-> 0, error |-> "ZeroDivisionError"]
    ELSE [value |-> round(100 * sum(price_volume_of(p, v)), sum(v)), error |-> ""]

----------------------------------------------------------------------------
(* IndicatorCalculator.calculate_cpr *)

\* high, low and close are counted in hundredths.  pivot, bc and tc are kept
\* as numerators over 6 until they are rounded: pivot = 2(h+l+c)/6,
\* bc = 3(h+l)/6, tc = (pivot - bc) + pivot.
calculate_cpr_signslip(high, low, close) ==
    LET pivot == 2 * (high + low + close)
        bc == 3 * (high + low)
        tc == (pivot + bc) + pivot
    IN  [pivot |-> round(pivot, 6), bc |-> round(bc, 6), tc |-> round(tc, 6)]

calculate_cpr(high, low, close) ==
    LET pivot == 2 * (high + low + close)
        bc == 3 * (high + low)
        tc == (pivot - bc) + pivot
    IN  [pivot |-> round(pivot, 6), bc |-> round(bc, 6), tc |-> round(tc, 6)]

----------------------------------------------------------------------------
(* TradingEngine.generate_signal *)

\* Lines 312-320: the decision table and the notes.
decide_boundary_slip(ind) ==
    IF ind.rsi <= 3000 /\ ind.ltp > ind.vwap /\ ind.ltp > ind.tc
    THEN [signal |-> "BUY",
          notes |-> "RSI oversold (" \o Format2f(ind.rsi) \o "), price above VWAP and TC"]
    ELSE IF ind.rsi > 7000 /\ ind.ltp < ind.vwap /\ ind.ltp < ind.bc
    THEN [signal |-> "SELL",
          notes |-> "RSI overbought (" \o Format2f(ind.rsi) \o "), price below VWAP and BC"]
    ELSE [signal |-> "HOLD", notes |-> "No clear signal"]

decide(ind) ==
    IF ind.rsi < 3000 /\ ind.ltp > ind.vwap /\ ind.ltp > ind.tc
    THEN [signal |-> "BUY",
          notes |-> "RSI oversold (" \o Format2f(ind.rsi) \o "), price above VWAP and TC"]
    ELSE IF ind.rsi > 7000 /\ ind.ltp < ind.vwap /\ ind.ltp < ind.bc
    THEN [signal |-> "SELL",
          notes |-> "RSI overbought (" \o Format2f(ind.rsi) \o "), price below VWAP and BC"]
    ELSE [signal |-> "HOLD", notes |-> "No clear signal"]

\* Lines 322-331: target and stop loss.  price * 1.01 in thousandths is
\* price * 101 / 100; rounded to hundredths it is 10 * round(price * 101 / 1000).
levels_swapped(signal, price) ==
    IF signal = "BUY"
    THEN [target |-> 10 * round(price * 101, 1000),
          stop_loss |-> 10 * round(price * 995, 10000)]
    ELSE IF signal = "SELL"
    THEN [target |-> 10 * round(price * 1005, 10000),
          stop_loss |-> 10 * round(price * 99, 1000)]
    ELSE [target |-> price, stop_loss |-> price]

levels(signal, price) ==
    IF signal = "BUY"
    THEN [target |-> 10 * round(price * 101, 1000),
          stop_loss |-> 10 * round(price * 995, 10000)]
    ELSE IF signal = "SELL"
    THEN [target |-> 10 * round(price * 99, 1000),
          stop_loss |-> 10 * round(price * 1005, 10000)]
    ELSE [target |-> price, stop_loss |-> price]

TradingEngine_generate_signal(ind) ==
    LET d == decide(ind)
        l == levels(d.signal, ind.ltp)
    IN  [signal |-> d.signal,
         entry_price |-> ind.ltp,
         target |-> l.target,
         stop_loss |-> l.stop_loss,
         notes |-> d.notes]

----------------------------------------------------------------------------
(* The watchlist *)

DEFAULT_WATCHLIST ==
    << [symbol |-> "RELIANCE", instrument_token |-> "2885"],
       [symbol |-> "TCS", instrument_token |-> "11536"],
       [symbol |-> "INFY", instrument_token |-> "1594"],
       [symbol |-> "HDFCBANK", instrument_token |-> "1333"],
       [symbol |-> "ICICIBANK", instrument_token |-> "4963"] >>

\* any(item['symbol'] == symbol for item in watchlist)
has_symbol(watchlist, symbol) == \E k \in 1..Len(watchlist) : watchlist[k].symbol = symbol

\* Lines 357-361: one iteration of the add loop.
add_symbol_unchecked(watchlist, symbol) ==
    Append(watchlist, [symbol |-> symbol, instrument_token |-> "dummy_" \o symbol])

add_symbol(watchlist, symbol) ==
    IF ~ has_symbol(watchlist, symbol)
    THEN Append(watchlist, [symbol |-> symbol, instrument_token |-> "dummy_" \o symbol])
    ELSE watchlist

\* Lines 355-361: "for symbol in request.symbols".
RECURSIVE add_symbols(_, _)
add_symbols(watchlist, symbols) ==
    IF symbols = <<>> THEN watchlist
    ELSE add_symbols(add_symbol(watchlist, Head(symbols)), Tail(symbols))

\* Line 363: the list comprehension of the remove branch.
remove_symbols_first_only(watchlist, symbols) ==
    SelectSeq(watchlist, LAMBDA item : symbols = <<>> \/ item.symbol # symbols[1])

remove_symbols(watchlist, symbols) ==
    SelectSeq(watchlist, LAMBDA item : item.symbol \notin Range(symbols))

\* Lines 354-363: the new watchlist for a WatchlistRequest.
updated_watchlist(watchlist, req) ==
    IF req.action = "add" THEN add_symbols(watchlist, req.symbols)
    ELSE IF req.action = "remove" THEN remove_symbols(watchlist, req.symbols)
    ELSE watchlist

----------------------------------------------------------------------------
(* Values of the variables when nothing has been computed or exchanged *)

NoRequest == [action |-> "", symbols |-> <<>>]
NoResponse == [op |-> "", status |-> 0, message |-> "", body |-> <<>>]
NoSignalResponse ==
    [symbol |-> "", signal |-> "", entry_price |-> 0, target |-> 0, stop_loss |-> 0, notes |-> ""]
NoSignalData ==
    [signal |-> "", entry_price |-> 0, target |-> 0, stop_loss |-> 0, notes |-> ""]
NoIndicators == [rsi |-> 0, vwap |-> 0, ltp |-> 0, tc |-> 0, bc |-> 0]
NoRsi == [rsi |-> -1, zero_division |-> FALSE]
NoVwapInput == [prices |-> <<>>, volumes |-> <<>>]
NoVwap == [value |-> -1, error |-> ""]
NoCprInput == [high |-> 0, low |-> 0, close |-> 0]
NoCpr == [pivot |-> -1, bc |-> -1, tc |-> -1]

----------------------------------------------------------------------------
(* Inputs *)

\* Symbols a WatchlistRequest may name: two of the default ones and a new one.
RequestSymbols == {"RELIANCE", "TCS", "AAPL"}

RequestActions == {"add", "remove", "clear"}

Requests == [action : RequestActions, symbols : SeqsUpTo(RequestSymbols, MaxSymbols)]

\* What the market-data path of get_indicators may produce for a symbol:
\* one snapshot for each verdict of the decision table.
Snapshots ==
    { [rsi |-> 2500, vwap |-> 100000, ltp |-> 110000, tc |-> 105000, bc |-> 95000],
      [rsi |-> 7500, vwap |-> 100000, ltp |-> 90000, tc |-> 105000, bc |-> 95000],
      [rsi |-> 5000, vwap |-> 100000, ltp |-> 100000, tc |-> 105000, bc |-> 95000] }

\* Inputs of TradingEngine.generate_signal: on, below and above each threshold;
\* the prices include two with more than 2 decimals (110.005 and 0.006).
IndicatorInputs ==
    [rsi : {2500, 2999, 3000, 5000, 7000, 7001, 7500},
     vwap : {100000, 110000},
     ltp : {6, 90000, 95000, 100000, 105000, 110000, 110005},
     tc : {95000, 105000},
     bc : {95000, 105000}]

PriceValues == {1, 2, 3}

VolumeValues == {0, 1, 2}

VwapInputs ==
    [prices : SeqsUpTo(PriceValues, MaxVwapLen), volumes : SeqsUpTo(VolumeValues, MaxVwapLen)]

CprInputs == [high : 0..MaxCprValue, low : 0..MaxCprValue, close : 0..MaxCprValue]

----------------------------------------------------------------------------
(* Endpoints used by the scan *)

\* GET /indicators.  fetch_ok = FALSE stands for any exception raised while the
\* market data is retrieved and the indicators are computed.  The 404 is raised
\* inside the try block, so "except Exception" turns it into a 500 as well.
get_indicators(symbol, fetch_ok, snapshot) ==
    IF ~ has_symbol(watchlist_storage, symbol)
    THEN [status |-> 500, detail |-> "404: Symbol not found in watchlist", data |-> NoIndicators]
    ELSE IF ~ fetch_ok
    THEN [status |-> 500, detail |-> "error", data |-> NoIndicators]
    ELSE [status |-> 200, detail |-> "", data |-> snapshot]

\* POST /signal.
generate_signal_swallow(symbol, fetch_ok, snapshot) ==
    LET indicators_data == get_indicators(symbol, fetch_ok, snapshot)
        sd == TradingEngine_generate_signal(indicators_data.data)
    IN  [status |-> 200, detail |-> "",
         result |-> [symbol |-> symbol, signal |-> sd.signal,
                     entry_price |-> sd.entry_price, target |-> sd.target,
                     stop_loss |-> sd.stop_loss, notes |-> sd.notes]]

generate_signal(symbol, fetch_ok, snapshot) ==
    LET indicators_data == get_indicators(symbol, fetch_ok, snapshot)
    IN  IF indicators_data.status # 200
        THEN [status |-> 500, detail |-> "500: " \o indicators_data.detail,
              result |-> NoSignalResponse]
        ELSE LET sd == TradingEngine_generate_signal(indicators_data.data)
             IN  [status |-> 200, detail |-> "",
                  result |-> [symbol |-> symbol, signal |-> sd.signal,
                              entry_price |-> sd.entry_price, target |-> sd.target,
                              stop_loss |-> sd.stop_loss, notes |-> sd.notes]]

\* POST /log: sheets_logger.log_trade returns success; the endpoint raises a
\* 500 when it is False.
log_trade(success) == IF success THEN 200 ELSE 500

\* POST /alert: the same shape around notification_service.send_alert.
send_alert(success) == IF success THEN 200 ELSE 500

\* Line 492: "if signal_response.signal != 'HOLD'".
is_actionable_always(sr) == TRUE

is_actionable(sr) == sr.signal # "HOLD"

\* Lines 518-520: "except Exception: ... continue" - the index of the item the
\* loop goes on with after a failure at item k.
after_exception_break(k) == Len(watchlist_storage) + 1

after_exception_skip(k) == k + 2

after_exception(k) == k + 1

\* Line 516: results.append(signal_response)
append_result_front(list, sr) == <<sr>> \o list

append_result(list, sr) == Append(list, sr)

Call(kind, sr, ok) == [call |-> kind, symbol |-> sr.symbol, signal |-> sr.signal, ok |-> ok]

----------------------------------------------------------------------------
(* Actions of the server *)

ServerIdle ==
    /\ UNCHANGED signalVars
    /\ UNCHANGED rsiVars
    /\ UNCHANGED vwapVars
    /\ UNCHANGED cprVars

\* POST /watchlist
update_watchlist_during_scan ==
    /\ \E req \in Requests :
         /\ request' = req
         /\ watchlist_storage' = updated_watchlist(watchlist_storage, req)
         /\ response' = [op |-> "watchlist", status |-> 200, message |-> "Watchlist updated",
                         body |-> updated_watchlist(watchlist_storage, req)]
    /\ results' = <<>>
    /\ calls' = <<>>
    /\ UNCHANGED <<pc, i, signal_response>>
    /\ ServerIdle

update_watchlist ==
    /\ pc = "idle"
    /\ \E req \in Requests :
         /\ request' = req
         /\ watchlist_storage' = updated_watchlist(watchlist_storage, req)
         /\ response' = [op |-> "watchlist", status |-> 200, message |-> "Watchlist updated",
                         body |-> updated_watchlist(watchlist_storage, req)]
    /\ results' = <<>>
    /\ calls' = <<>>
    /\ UNCHANGED <<pc, i, signal_response>>
    /\ ServerIdle

\* POST /scan-all, line 483: results = []
ScanStart ==
    /\ pc = "idle"
    /\ pc' = "signal"
    /\ i' = 1
    /\ results' = <<>>
    /\ calls' = <<>>
    /\ request' = NoRequest
    /\ response' = NoResponse
    /\ UNCHANGED <<watchlist_storage, signal_response>>
    /\ ServerIdle

\* Lines 485-492 and 516: the next item, its signal, and the HOLD path.
ScanSignal ==
    /\ pc = "signal"
    /\ i <= Len(watchlist_storage)
    /\ \E fetch_ok \in BOOLEAN, snapshot \in Snapshots :
         LET item == watchlist_storage[i]
             r == generate_signal(item.symbol, fetch_ok, snapshot)
         IN  IF r.status # 200
             THEN /\ calls' = Append(calls, [call |-> "fetch", symbol |-> item.symbol,
                                             signal |-> "", ok |-> fetch_ok])
                  /\ i' = after_exception(i)
                  /\ UNCHANGED <<pc, signal_response, results>>
             ELSE /\ calls' = Append(calls, Call("fetch", r.result, fetch_ok))
                  /\ IF is_actionable(r.result)
                     THEN /\ pc' = "log"
                          /\ signal_response' = r.result
                          /\ UNCHANGED <<i, results>>
                     ELSE /\ results' = append_result(results, r.result)
                          /\ i' = i + 1
                          /\ UNCHANGED <<pc, signal_response>>
    /\ UNCHANGED <<watchlist_storage, request, response>>
    /\ ServerIdle

\* Lines 493-503: await log_trade(log_request)
ScanLog ==
    /\ pc = "log"
    /\ \E success \in BOOLEAN :
         /\ calls' = Append(calls, Call("log", signal_response, success))
         /\ IF log_trade(success) = 200
            THEN /\ pc' = "alert"
                 /\ UNCHANGED <<i, signal_response>>
            ELSE /\ pc' = "signal"
                 /\ i' = after_exception(i)
                 /\ signal_response' = NoSignalResponse
    /\ UNCHANGED <<watchlist_storage, request, response, results>>
    /\ ServerIdle

\* Lines 505-516: await send_alert(alert_request); results.append(signal_response)
ScanAlert ==
    /\ pc = "alert"
    /\ \E success \in BOOLEAN :
         /\ calls' = Append(calls, Call("alert", signal_response, success))
         /\ IF send_alert(success) = 200
            THEN /\ results' = append_result(results, signal_response)
                 /\ i' = i + 1
            ELSE /\ i' = after_exception(i)
                 /\ UNCHANGED results
    /\ pc' = "signal"
    /\ signal_response' = NoSignalResponse
    /\ UNCHANGED <<watchlist_storage, request, response>>
    /\ ServerIdle

\* Line 522: return {"message": f"Scanned {len(results)} symbols", "results": results}
ScanReturn ==
    /\ pc = "signal"
    /\ i > Len(watchlist_storage)
    /\ response' = [op |-> "scan-all", status |-> 200,
                    message |-> "Scanned " \o ToString(Len(results)) \o " symbols",
                    body |-> results]
    /\ pc' = "idle"
    /\ UNCHANGED <<watchlist_storage, request, i, signal_response, results, calls>>
    /\ ServerIdle

\* GET /indicators?symbol=...
GetIndicators ==
    /\ pc = "idle"
    /\ \E symbol \in RequestSymbols, fetch_ok \in BOOLEAN, snapshot \in Snapshots :
         LET r == get_indicators(symbol, fetch_ok, snapshot)
         IN  /\ request' = [action |-> "indicators", symbols |-> <<symbol>>]
             /\ response' = [op |-> "indicators", status |-> r.status, message |-> r.detail,
                             body |-> IF r.status = 200 THEN <<r.data>> ELSE <<>>]
    /\ results' = <<>>
    /\ calls' = <<>>
    /\ UNCHANGED <<watchlist_storage, pc, i, signal_response>>
    /\ ServerIdle

\* POST /signal
PostSignal ==
    /\ pc = "idle"
    /\ \E symbol \in RequestSymbols, fetch_ok \in BOOLEAN, snapshot \in Snapshots :
         LET r == generate_signal(symbol, fetch_ok, snapshot)
         IN  /\ request' = [action |-> "signal", symbols |-> <<symbol>>]
             /\ response' = [op |-> "signal", status |-> r.status, message |-> r.detail,
                             body |-> IF r.status = 200 THEN <<r.result>> ELSE <<>>]
    /\ results' = <<>>
    /\ calls' = <<>>
    /\ UNCHANGED <<watchlist_storage, pc, i, signal_response>>
    /\ ServerIdle

InitServer ==
    /\ watchlist_storage = SubSeq(DEFAULT_WATCHLIST, 1, Min(MaxDefault, Len(DEFAULT_WATCHLIST)))
    /\ request = NoRequest
    /\ pc = "idle"
    /\ i = 0
    /\ signal_response = NoSignalResponse
    /\ results = <<>>
    /\ calls = <<>>
    /\ response = NoResponse

InitVwapCprIdle ==
    /\ vwap_input = NoVwapInput
    /\ vwap_result = NoVwap
    /\ cpr_input = NoCprInput
    /\ cpr_result = NoCpr

Init ==
    /\ InitServer
    /\ indicators = NoIndicators
    /\ signal_data = NoSignalData
    /\ prices = <<>>
    /\ period = 1
    /\ rsi_result = NoRsi
    /\ InitVwapCprIdle

Next ==
    \/ update_watchlist
    \/ ScanStart
    \/ ScanSignal
    \/ ScanLog
    \/ ScanAlert
    \/ ScanReturn
    \/ GetIndicators
    \/ PostSignal

Spec == Init /\ [][Next]_vars

----------------------------------------------------------------------------
(* Scans alone, from the states that one watchlist request leads to.  A
   handler that has started runs each of its statements to completion, hence
   the weak fairness of every step of the scan. *)

InitScan ==
    /\ \E req \in Requests :
         /\ request = req
         /\ watchlist_storage =
                updated_watchlist(SubSeq(DEFAULT_WATCHLIST, 1, Min(MaxDefault, Len(DEFAULT_WATCHLIST))), req)
         /\ response = [op |-> "watchlist", status |-> 200, message |-> "Watchlist updated",
                        body |-> watchlist_storage]
    /\ pc = "idle"
    /\ i = 0
    /\ signal_response = NoSignalResponse
    /\ results = <<>>
    /\ calls = <<>>
    /\ indicators = NoIndicators
    /\ signal_data = NoSignalData
    /\ prices = <<>>
    /\ period = 1
    /\ rsi_result = NoRsi
    /\ InitVwapCprIdle

NextScan ==
    \/ ScanStart
    \/ ScanSignal
    \/ ScanLog
    \/ ScanAlert
    \/ ScanReturn

SpecScan ==
    /\ InitScan
    /\ [][NextScan]_vars
    /\ WF_vars(ScanSignal)
    /\ WF_vars(ScanLog)
    /\ WF_vars(ScanAlert)
    /\ WF_vars(ScanReturn)

----------------------------------------------------------------------------
(* TradingEngine.generate_signal as a state machine over its inputs *)

Evaluate ==
    /\ signal_data = NoSignalData
    /\ signal_data' = TradingEngine_generate_signal(indicators)
    /\ UNCHANGED <<indicators, prices, period, rsi_result>>
    /\ UNCHANGED <<vwapVars, cprVars>>
    /\ UNCHANGED serverVars

InitSignal ==
    /\ InitServer
    /\ indicators \in IndicatorInputs
    /\ signal_data = NoSignalData
    /\ prices = <<>>
    /\ period = 1
    /\ rsi_result = NoRsi
    /\ InitVwapCprIdle

NextSignal == Evaluate

SpecSignal == InitSignal /\ [][NextSignal]_vars

----------------------------------------------------------------------------
(* calculate_rsi as a state machine over its inputs *)

ComputeRsi ==
    /\ rsi_result = NoRsi
    /\ rsi_result' = calculate_rsi(prices, period)
    /\ UNCHANGED <<prices, period, indicators, signal_data>>
    /\ UNCHANGED <<vwapVars, cprVars>>
    /\ UNCHANGED serverVars

InitRsi ==
    /\ InitServer
    /\ indicators = NoIndicators
    /\ signal_data = NoSignalData
    /\ prices \in SeqsUpTo(PriceValues, MaxLen)
    /\ period \in 1..MaxPeriod
    /\ rsi_result = NoRsi
    /\ InitVwapCprIdle

NextRsi == ComputeRsi

SpecRsi == InitRsi /\ [][NextRsi]_vars

----------------------------------------------------------------------------
(* calculate_vwap as a state machine over its inputs *)

ComputeVwap ==
    /\ vwap_result = NoVwap
    /\ vwap_result' = calculate_vwap(vwap_input.prices, vwap_input.volumes)
    /\ UNCHANGED <<vwap_input, cprVars, signalVars, rsiVars>>
    /\ UNCHANGED serverVars

InitVwap ==
    /\ InitServer
    /\ indicators = NoIndicators
    /\ signal_data = NoSignalData
    /\ prices = <<>>
    /\ period = 1
    /\ rsi_result = NoRsi
    /\ vwap_input \in VwapInputs
    /\ vwap_result = NoVwap
    /\ cpr_input = NoCprInput
    /\ cpr_result = NoCpr

NextVwap == ComputeVwap

SpecVwap == InitVwap /\ [][NextVwap]_vars

----------------------------------------------------------------------------
(* calculate_cpr as a state machine over its inputs *)

ComputeCpr ==
    /\ cpr_result = NoCpr
    /\ cpr_result' = calculate_cpr(cpr_input.high, cpr_input.low, cpr_input.close)
    /\ UNCHANGED <<cpr_input, vwapVars, signalVars, rsiVars>>
    /\ UNCHANGED serverVars

InitCpr ==
    /\ InitServer
    /\ indicators = NoIndicators
    /\ signal_data = NoSignalData
    /\ prices = <<>>
    /\ period = 1
    /\ rsi_result = NoRsi
    /\ vwap_input = NoVwapInput
    /\ vwap_result = NoVwap
    /\ cpr_input \in CprInputs
    /\ cpr_result = NoCpr

NextCpr == ComputeCpr

SpecCpr == InitCpr /\ [][NextCpr]_vars

----------------------------------------------------------------------------
(* Properties of the scan (specification Spec) *)

ScanReturned == pc = "idle" /\ response.op = "scan-all"

WatchlistSymbols == {watchlist_storage[k].symbol : k \in 1..Len(watchlist_storage)}

FailedFor(symbol) == \E k \in 1..Len(calls) : calls[k].symbol = symbol /\ ~ calls[k].ok

Reported(symbol) == \E k \in 1..Len(response.body) : response.body[k].symbol = symbol

\* C1: partial-failure isolation.  When a scan has returned, every watchlist
\* symbol has been evaluated (its data fetch was attempted), whatever failed
\* for the other symbols, and every symbol none of whose own calls failed has
\* its verdict, the one computed from its snapshot, in the returned list.
C1_PartialFailureIsolation ==
    ScanReturned =>
        \A y \in WatchlistSymbols :
            /\ \E k \in 1..Len(calls) : calls[k].call = "fetch" /\ calls[k].symbol = y
            /\ ~ FailedFor(y) =>
                 \E k \in 1..Len(calls), r \in 1..Len(response.body) :
                     /\ calls[k].call = "fetch"
                     /\ calls[k].symbol = y
                     /\ response.body[r].symbol = y
                     /\ response.body[r].signal = calls[k].signal

\* A scan returned in which a call failed for a symbol X and a symbol Y that
\* comes after X in the watchlist had no failure and is reported.
C1_Witness ==
    /\ ScanReturned
    /\ \E j, k \in 1..Len(watchlist_storage) :
         /\ j < k
         /\ FailedFor(watchlist_storage[j].symbol)
         /\ ~ FailedFor(watchlist_storage[k].symbol)
         /\ Reported(watchlist_storage[k].symbol)

\* C4: the trade-log and alert collaborators are called only with a BUY or
\* SELL verdict, the verdict just computed for that symbol, never for HOLD;
\* and an alert call for a symbol comes after a trade-log call for it.
C4_LogAndAlertOnlyWhenActionable ==
    \A k \in 1..Len(calls) :
        calls[k].call \in {"log", "alert"} =>
            /\ calls[k].signal \in {"BUY", "SELL"}
            /\ \E j \in 1..(k - 1) :
                 /\ calls[j].call = "fetch"
                 /\ calls[j].symbol = calls[k].symbol
                 /\ calls[j].signal = calls[k].signal
            /\ calls[k].call = "alert" =>
                 \E j \in 1..(k - 1) :
                     calls[j].call = "log" /\ calls[j].symbol = calls[k].symbol

\* A scan that met a HOLD verdict (no collaborator call follows it) and a
\* non-HOLD verdict whose trade-log and alert calls both happened.
C4_Witness ==
    /\ \E k \in 1..Len(calls) : calls[k].call = "alert"
    /\ \E k \in 1..Len(calls) :
         /\ calls[k].call = "fetch"
         /\ calls[k].signal = "HOLD"
         /\ k < Len(calls)
         /\ calls[k + 1].call = "fetch"

\* C5: when a scan has returned, both the trade-log and the alert collaborator
\* were called for every symbol with a non-HOLD verdict, also when the
\* trade-log call failed.
C5_BothCollaboratorsInvoked ==
    ScanReturned =>
        \A k \in 1..Len(calls) :
            (calls[k].call = "fetch" /\ calls[k].signal \in {"BUY", "SELL"}) =>
                /\ \E j \in 1..Len(calls) :
                     calls[j].call = "log" /\ calls[j].symbol = calls[k].symbol
                /\ \E j \in 1..Len(calls) :
                     calls[j].call = "alert" /\ calls[j].symbol = calls[k].symbol

\* C6: the result list, while it is accumulated and as it is returned, holds
\* only watchlist symbols whose data fetch succeeded, each at most once.
ResultListSound(list) ==
    /\ \A r \in 1..Len(list) :
         /\ list[r].symbol \in WatchlistSymbols
         /\ list[r].signal \in {"BUY", "SELL", "HOLD"}
         /\ \E k \in 1..Len(calls) :
              calls[k].call = "fetch" /\ calls[k].symbol = list[r].symbol /\ calls[k].ok
         /\ ~ \E k \in 1..Len(calls) :
              calls[k].call = "fetch" /\ calls[k].symbol = list[r].symbol /\ ~ calls[k].ok
    /\ \A r1, r2 \in 1..Len(list) : r1 # r2 => list[r1].symbol # list[r2].symbol

C6_ResultsOnlySuccessfulSymbols ==
    /\ ResultListSound(results)
    /\ ScanReturned => ResultListSound(response.body)

\* A scan returned a non-empty list although the data fetch of a symbol failed.
C6_Witness ==
    /\ ScanReturned
    /\ Len(response.body) > 0
    /\ \E k \in 1..Len(calls) : calls[k].call = "fetch" /\ ~ calls[k].ok

----------------------------------------------------------------------------
(* Properties of the watchlist (specification Spec) *)

\* C7: no two watchlist entries share a symbol.
C7_SymbolsUnique ==
    \A j, k \in 1..Len(watchlist_storage) :
        j # k => watchlist_storage[j].symbol # watchlist_storage[k].symbol

\* An add request whose list repeats a symbol has been handled and the symbol
\* is in the watchlist, next to all the default entries.
C7_Witness ==
    /\ request.action = "add"
    /\ Len(request.symbols) = 2
    /\ request.symbols[1] = request.symbols[2]
    /\ has_symbol(watchlist_storage, request.symbols[1])
    /\ Len(watchlist_storage) > MaxDefault

AddPostcondition(before, symbols, after) ==
    /\ \A k \in 1..Len(symbols) : has_symbol(after, symbols[k])
    /\ Len(after) >= Len(before)
    /\ \A k \in 1..Len(before) : after[k] = before[k]

RemovePostcondition(before, symbols, after) ==
    /\ \A k \in 1..Len(symbols) : ~ has_symbol(after, symbols[k])
    /\ \A k \in 1..Len(after) : after[k].symbol \notin Range(symbols)
    /\ after = SelectSeq(before, LAMBDA item : \A k \in 1..Len(symbols) : item.symbol # symbols[k])

\* C8: every step that handles an add request leaves each earlier entry where
\* it was, unchanged, and the watchlist contains every requested symbol; every
\* step that handles a remove request leaves no requested symbol in the
\* watchlist and keeps the other entries, unchanged and in their order.
C8_UpdatePostconditions ==
    [][(request' # NoRequest) =>
          /\ request'.action = "add" =>
               AddPostcondition(watchlist_storage, request'.symbols, watchlist_storage')
          /\ request'.action = "remove" =>
               RemovePostcondition(watchlist_storage, request'.symbols, watchlist_storage')]_vars

\* A remove request naming two different symbols has taken both out of a
\* watchlist that keeps an entry added earlier.
C8_Witness ==
    /\ request = [action |-> "remove", symbols |-> <<"TCS", "RELIANCE">>]
    /\ has_symbol(watchlist_storage, "AAPL")
    /\ ~ has_symbol(watchlist_storage, "TCS")
    /\ ~ has_symbol(watchlist_storage, "RELIANCE")

----------------------------------------------------------------------------
(* Properties of TradingEngine.generate_signal (specification SpecSignal) *)

Evaluated == signal_data # NoSignalData

BuyCondition ==
    indicators.rsi < 3000 /\ indicators.ltp > indicators.vwap /\ indicators.ltp > indicators.tc

SellCondition ==
    indicators.rsi > 7000 /\ indicators.ltp < indicators.vwap /\ indicators.ltp < indicators.bc

\* C2: the verdict is BUY exactly when rsi < 30, price > vwap and price > tc,
\* SELL exactly when rsi > 70, price < vwap and price < bc, and otherwise HOLD
\* with the notes "No clear signal"; the two conditions exclude each other.
C2_DecisionTable ==
    Evaluated =>
        /\ signal_data.signal \in {"BUY", "SELL", "HOLD"}
        /\ signal_data.signal = "BUY" <=> BuyCondition
        /\ signal_data.signal = "SELL" <=> SellCondition
        /\ (~ BuyCondition /\ ~ SellCondition) =>
              (signal_data.signal = "HOLD" /\ signal_data.notes = "No clear signal")
        /\ ~ (BuyCondition /\ SellCondition)

\* HOLD on the RSI threshold itself, with the price above VWAP and TC.
C2_Witness ==
    /\ Evaluated
    /\ indicators.rsi = 3000
    /\ indicators.ltp > indicators.vwap
    /\ indicators.ltp > indicators.tc
    /\ signal_data.signal = "HOLD"

\* C3: entry_price is the last traded price; target and stop loss are
\* price * 1.01 and price * 0.995 for BUY, price * 0.99 and price * 1.005 for
\* SELL, each rounded to 2 decimals, and the price itself for HOLD.
C3_TargetAndStopLoss ==
    Evaluated =>
        LET price == indicators.ltp
        IN  /\ signal_data.entry_price = price
            /\ signal_data.signal = "BUY" =>
                 /\ signal_data.target = 10 * round(price * 101, 1000)
                 /\ signal_data.stop_loss = 10 * round(price * 995, 10000)
            /\ signal_data.signal = "SELL" =>
                 /\ signal_data.target = 10 * round(price * 99, 1000)
                 /\ signal_data.stop_loss = 10 * round(price * 1005, 10000)
            /\ signal_data.signal = "HOLD" =>
                 /\ signal_data.target = price
                 /\ signal_data.stop_loss = price
            /\ (signal_data.signal = "BUY" /\ price = 110000) =>
                 (signal_data.target = 111100 /\ signal_data.stop_loss = 109450)
            /\ (signal_data.signal = "SELL" /\ price = 90000) =>
                 (signal_data.target = 89100 /\ signal_data.stop_loss = 90450)

\* A BUY at 110.005, where the rounding acts: target 111.11, stop loss 109.45.
C3_Witness ==
    /\ Evaluated
    /\ signal_data.signal = "BUY"
    /\ indicators.ltp = 110005
    /\ signal_data.target = 111110
    /\ signal_data.stop_loss = 109450

----------------------------------------------------------------------------
(* Properties of calculate_rsi (specification SpecRsi) *)

Computed == rsi_result # NoRsi

NoLoss == \A k \in 1..(Len(prices) - 1) : prices[k + 1] >= prices[k]

\* C9: the RSI lies in [0, 100], and is exactly 50.0 for a series of fewer than
\* period + 1 samples.
C9_RsiRange ==
    Computed =>
        /\ rsi_result.rsi >= 0
        /\ rsi_result.rsi <= 10000
        /\ Len(prices) < period + 1 => rsi_result.rsi = 5000

\* A long enough series with gains and losses, and an RSI strictly inside the range.
C9_Witness ==
    /\ Computed
    /\ Len(prices) > period + 1
    /\ rsi_result.rsi > 0
    /\ rsi_result.rsi < 10000
    /\ rsi_result.rsi # 5000

\* C10: for a series of at least period + 1 samples without a loss the RSI is
\* exactly 100.0 and no division by zero takes place.
C10_NoLossIsHundred ==
    (Computed /\ Len(prices) >= period + 1 /\ NoLoss) =>
        (rsi_result.rsi = 10000 /\ ~ rsi_result.zero_division)

\* A strictly increasing series long enough for the smoothing loop to run.
C10_Witness ==
    /\ Computed
    /\ Len(prices) > period + 1
    /\ \A k \in 1..(Len(prices) - 1) : prices[k + 1] > prices[k]
    /\ rsi_result.rsi = 10000

----------------------------------------------------------------------------
(* Properties of calculate_vwap (specification SpecVwap) *)

VwapComputed == vwap_result # NoVwap

VwapInputInvalid ==
    Len(vwap_input.prices) # Len(vwap_input.volumes) \/ Len(vwap_input.prices) = 0

\* C11: calculate_vwap returns exactly 0.0 when the two series differ in length
\* or are empty, and otherwise returns sum(price * volume) / sum(volume)
\* rounded to 2 decimals.
C11_VwapValue ==
    VwapComputed =>
        IF VwapInputInvalid
        THEN vwap_result.error = "" /\ vwap_result.value = 0
        ELSE /\ vwap_result.error = ""
             /\ vwap_result.value =
                    round(100 * sum(price_volume_of(vwap_input.prices, vwap_input.volumes)),
                          sum(vwap_input.volumes))

\* C12: calculate_vwap never raises: for every pair of series, also equal-length
\* non-empty ones whose volumes sum to zero, it returns a number, which is 0.0
\* when the input is invalid.
C12_VwapNeverRaises ==
    VwapComputed =>
        /\ vwap_result.error = ""
        /\ vwap_result.value >= 0
        /\ VwapInputInvalid => vwap_result.value = 0

----------------------------------------------------------------------------
(* Properties of calculate_cpr (specification SpecCpr) *)

CprComputed == cpr_result # NoCpr

\* (tc - pivot) - (pivot - bc) of the returned, rounded values, in hundredths.
CprAsymmetry == (cpr_result.tc - cpr_result.pivot) - (cpr_result.pivot - cpr_result.bc)

\* C13 as stated: the returned values, each rounded to 2 decimals, satisfy
\* tc - pivot = pivot - bc.
C13_CprSymmetryExact == CprComputed => CprAsymmetry = 0

\* C13 as amended: the returned values are symmetric up to the rounding,
\* tc - pivot and pivot - bc differ by at most 0.02.
C13_CprSymmetryUpToRounding ==
    CprComputed => (CprAsymmetry >= -2 /\ CprAsymmetry <= 2)

\* An input for which the rounding breaks the exact symmetry.
C13_Witness == CprComputed /\ CprAsymmetry # 0

----------------------------------------------------------------------------
(* Further properties of TradingEngine.generate_signal (specification SpecSignal) *)

\* A price counted in thousandths is rounded to 2 decimals when it is a
\* multiple of 10.
IsRounded2(price) == price % 10 = 0

\* C14: entry_price, target and stop_loss are each a multiple of 0.01 for every
\* verdict, also when the last traded price has more than 2 decimals.
C14_MonetaryOutputsRounded ==
    Evaluated =>
        /\ IsRounded2(signal_data.entry_price)
        /\ IsRounded2(signal_data.target)
        /\ IsRounded2(signal_data.stop_loss)

\* C20: for a last traded price > 0, BUY has stop_loss <= entry_price <= target,
\* SELL has target <= entry_price <= stop_loss, and HOLD has all three equal.
C20_PriceLevelOrdering ==
    (Evaluated /\ indicators.ltp > 0) =>
        /\ signal_data.signal = "BUY" =>
             /\ signal_data.stop_loss <= signal_data.entry_price
             /\ signal_data.entry_price <= signal_data.target
        /\ signal_data.signal = "SELL" =>
             /\ signal_data.target <= signal_data.entry_price
             /\ signal_data.entry_price <= signal_data.stop_loss
        /\ signal_data.signal = "HOLD" =>
             /\ signal_data.target = signal_data.entry_price
             /\ signal_data.stop_loss = signal_data.entry_price

----------------------------------------------------------------------------
(* Further properties of the scan (specifications Spec and SpecScan) *)

\* The position in the watchlist of the entry with this symbol.
IndexOf(symbol) ==
    CHOOSE k \in 1..Len(watchlist_storage) : watchlist_storage[k].symbol = symbol

InWatchlistOrder(list) ==
    \A r1, r2 \in 1..Len(list) :
        r1 < r2 => IndexOf(list[r1].symbol) < IndexOf(list[r2].symbol)

\* C15: the entries are processed one at a time in watchlist order: a call for
\* an entry never comes after a call for a later entry, the calls of one entry
\* start with its fetch, while an entry is being logged or alerted every call
\* so far belongs to it or to an earlier entry, and the result list, as
\* accumulated and as returned, is in watchlist order.
C15_OneEntryAtATimeInOrder ==
    /\ \A j, k \in 1..Len(calls) :
         j < k =>
            /\ IndexOf(calls[j].symbol) <= IndexOf(calls[k].symbol)
            /\ calls[j].symbol = calls[k].symbol => calls[k].call # "fetch"
    /\ pc \in {"log", "alert"} =>
         /\ Len(calls) > 0
         /\ calls[Len(calls)].symbol = watchlist_storage[i].symbol
         /\ \A k \in 1..Len(calls) : IndexOf(calls[k].symbol) <= i
    /\ InWatchlistOrder(results)
    /\ ScanReturned => InWatchlistOrder(response.body)

\* A scan of three entries returned the first and the third, the second failed.
C15_Witness ==
    /\ ScanReturned
    /\ Len(watchlist_storage) = 3
    /\ Len(response.body) = 2
    /\ FailedFor(watchlist_storage[2].symbol)
    /\ response.body[1].symbol = watchlist_storage[1].symbol
    /\ response.body[2].symbol = watchlist_storage[3].symbol

FetchCount(symbol) ==
    Cardinality({k \in 1..Len(calls) : calls[k].call = "fetch" /\ calls[k].symbol = symbol})

\* C16: a scan that has started eventually returns, whatever fails, and by
\* then the data fetch of every watchlist entry was attempted exactly once.
C16_ScanTerminates ==
    /\ (pc # "idle") ~> ScanReturned
    /\ [](ScanReturned =>
            \A k \in 1..Len(watchlist_storage) : FetchCount(watchlist_storage[k].symbol) = 1)

\* A scan returned after a failed fetch, a failed trade-log and a failed alert.
C16_Witness ==
    /\ ScanReturned
    /\ \E k \in 1..Len(calls) : calls[k].call = "fetch" /\ ~ calls[k].ok
    /\ \E k \in 1..Len(calls) : calls[k].call = "log" /\ ~ calls[k].ok
    /\ \E k \in 1..Len(calls) : calls[k].call = "alert" /\ ~ calls[k].ok

FetchedSymbols ==
    LET fetches == SelectSeq(calls, LAMBDA c : c.call = "fetch")
    IN  [k \in 1..Len(fetches) |-> fetches[k].symbol]

\* C17: no step taken while a scan is in progress changes the watchlist, and a
\* scan that has returned fetched exactly the entries of the watchlist, in order.
C17_NoMutationDuringScan ==
    /\ [][pc # "idle" => watchlist_storage' = watchlist_storage]_vars
    /\ [](ScanReturned =>
            FetchedSymbols = [k \in 1..Len(watchlist_storage) |-> watchlist_storage[k].symbol])

\* A scan is in progress over a watchlist that an earlier request has changed.
C17_Witness ==
    /\ pc = "alert"
    /\ i = 2
    /\ has_symbol(watchlist_storage, "AAPL")
    /\ ~ has_symbol(watchlist_storage, "TCS")

\* C18: /indicators and /signal for a symbol that is not in the watchlist
\* answer 404 with the detail "Symbol not found in watchlist" and no data.
C18_NotFoundIs404 ==
    (/\ response.op \in {"indicators", "signal"}
     /\ ~ has_symbol(watchlist_storage, request.symbols[1])) =>
        /\ response.status = 404
        /\ response.message = "Symbol not found in watchlist"
        /\ response.body = <<>>

\* C19: when a scan has returned, every symbol whose trade-log append
\* succeeded is in the returned list, also when its alert failed.
C19_LoggedTradesReported ==
    ScanReturned =>
        /\ \A k \in 1..Len(calls) :
             (calls[k].call = "log" /\ calls[k].ok) => Reported(calls[k].symbol)
        /\ response.message = "Scanned " \o ToString(Len(response.body)) \o " symbols"

============================================================================
